---- MODULE Spec2Model ----
(***************************************************************************)
(* State-machine model of run.py, the regression script of the RISC-V      *)
(* random instruction generator: test selection check, the four stage      *)
(* dispatch tests on --steps, and the stages gen, gcc_compile, iss_sim and *)
(* iss_cmp with every external command they issue.                         *)
(*                                                                         *)
(* An external command is one step of the model; its exit status (and, for *)
(* the log comparator, the text it appends to the report) is an input of   *)
(* that step.  Process termination (sys.exit or an uncaught exception) is  *)
(* pc = "exit" with a nonzero exit_code; normal end of the script is       *)
(* pc = "exit" with exit_code 0.                                           *)
(***************************************************************************)
EXTENDS Integers, Sequences, FiniteSets, TLC

VARIABLES
  steps,         \* args.steps, as the list of comma-separated tokens of its text
  matched_list,  \* matched_list after process_regression_list
  iss,           \* args.iss, as the list iss.split(",") yields
  simulator,     \* args.simulator
  so,            \* args.so (sim_only)
  co,            \* args.co (compile_only)
  environ,       \* names of the environment variables that are set
  output_dir,    \* args.o, as text
  cwd,           \* cwd, the directory of the script, as text
  isa,           \* args.isa, as text
  iss_path,      \* value of the path variables of the simulators, as text
  seed,          \* args.seed
  pc,            \* position of the script
  stage,         \* index of the stage whose --steps test comes next
  exit_code,     \* process exit status once pc = "exit" (-1 while running)
  exit_how,      \* "running", "end", "sys.exit" or "exception"
  calls,         \* stage functions called so far, in call order
  trace,         \* external commands and file reads issued so far, in order
  status,        \* outcome of the last external command issued
  compile_cmd,   \* gen: compile_cmd
  sim_cmd,       \* gen: sim_cmd
  output,        \* gen: local variable output (Unbound before assignment)
  ci,            \* gen: index into compile_cmd
  shown,         \* gen: what print(output) wrote when a generator run failed
  si,            \* iss_sim: index into iss_list.split(",")
  ti,            \* index of the current test in matched_list
  ii,            \* current iteration index i
  base_cmd,      \* iss_sim: base_cmd
  iss_list,      \* iss_cmp: local list iss_list
  report,        \* lines of <out>/iss_regr.log (<<>> when absent or empty)
  report0,       \* the report file as it was when the script started
  passed_cnt,    \* iss_cmp: passed_cnt (Unassigned before assignment)
  failed_cnt     \* iss_cmp: failed_cnt (Unassigned before assignment)

inputs == <<steps, matched_list, iss, simulator, so, co, environ, report0,
            output_dir, cwd, isa, iss_path, seed>>
ctl    == <<pc, stage, exit_code, exit_how>>
hist   == <<calls, trace, status>>
genv   == <<compile_cmd, sim_cmd, output, ci, shown>>
loopv  == <<si, ti, ii, base_cmd>>
cmpv   == <<iss_list, report, passed_cnt, failed_cnt>>
vars   == <<inputs, ctl, hist, genv, loopv, cmpv>>

(***************************************************************************)
(* Bounds of the model.                                                    *)
(***************************************************************************)
MaxSteps == 2    \* stage names in a --steps list
MaxTests == 2    \* test cases in matched_list
MaxIter  == 2    \* iterations of one test case
MaxIss   == 3    \* names in the --iss list
MaxWork  == 3    \* iterations of all test cases of matched_list together
MinWork  == 2    \* the same, where the simulator lists are varied

(***************************************************************************)
(* Text.  re.match works on characters, so the --steps value and the stage *)
(* names are modelled as sequences of characters; so are the names of the  *)
(* test cases and of the simulators where file names are built from them.  *)
(***************************************************************************)
Chars(tok) ==
  CASE tok = "all"         -> <<"a","l","l">>
    [] tok = "gen"         -> <<"g","e","n">>
    [] tok = "gcc_compile" -> <<"g","c","c","_","c","o","m","p","i","l","e">>
    [] tok = "iss_sim"     -> <<"i","s","s","_","s","i","m">>
    [] tok = "iss_cmp"     -> <<"i","s","s","_","c","m","p">>
    [] tok = "spike"       -> <<"s","p","i","k","e">>
    [] tok = "ovpsim"      -> <<"o","v","p","s","i","m">>
    [] tok = "OVPSIM"      -> <<"O","V","P","S","I","M">>
    [] tok = "sail"        -> <<"s","a","i","l">>
    [] tok = "t0"          -> <<"t","0">>
    [] tok = "t1"          -> <<"t","1">>
    [] tok = "t2"          -> <<"t","2">>
    [] tok = "t"           -> <<"t">>
    [] tok = "t.0"         -> <<"t",".","0">>
    [] tok = "t.1"         -> <<"t",".","1">>

RECURSIVE Join(_)
Join(toks) ==
  IF Len(toks) = 0 THEN <<>>
  ELSE IF Len(toks) = 1 THEN Chars(toks[1])
  ELSE Chars(toks[1]) \o <<",">> \o Join(Tail(toks))

\* re.match(pattern, string) for a pattern of literal characters: the
\* pattern must match at the beginning of the string.
ReMatch(pattern, string) ==
  /\ Len(pattern) <= Len(string)
  /\ SubSeq(string, 1, Len(pattern)) = pattern

\* Text is a sequence of elements; an element is a character or a word that
\* is never split (a placeholder such as "<out>", a literal part of a
\* command).
\* re.sub(pat, repl, text) for a pattern that is one placeholder: every
\* occurrence of the placeholder in text, from left to right, becomes repl.
RECURSIVE ReSub(_, _, _)
ReSub(pat, repl, text) ==
  IF Len(text) = 0 THEN <<>>
  ELSE (IF text[1] = pat THEN repl ELSE <<text[1]>>) \o ReSub(pat, repl, Tail(text))

\* str.rstrip(): the text without its trailing white space.
RECURSIVE Rstrip(_)
Rstrip(text) ==
  IF Len(text) > 0 /\ text[Len(text)] \in {" ", "\n"}
    THEN Rstrip(SubSeq(text, 1, Len(text) - 1))
    ELSE text

\* str.upper(): every lower-case letter becomes its upper-case letter,
\* every other element is kept.
Upper(text) ==
  [n \in DOMAIN text |->
     CASE text[n] = "r" -> "R" [] text[n] = "v" -> "V" [] text[n] = "i" -> "I"
       [] text[n] = "m" -> "M" [] text[n] = "c" -> "C" [] text[n] = "g" -> "G"
       [] OTHER -> text[n]]

\* Variant: only the first three characters of the stage name are matched.
StepSelectedByPrefix(name) ==
  \/ Join(steps) = Chars("all")
  \/ ReMatch(SubSeq(Chars(name), 1, 3), Join(steps))

\* args.steps == "all" or re.match(<stage>, args.steps)
StepSelected(name) ==
  \/ Join(steps) = Chars("all")
  \/ ReMatch(Chars(name), Join(steps))

(***************************************************************************)
(* Configuration data read by read_yaml, and the environment.              *)
(***************************************************************************)
\* yaml/simulator.yaml: the entries of the RTL simulators, among them a name
\* in another spelling and a name that occurs twice
SimulatorYaml ==
  << [tool |-> "Questa", compile_cmd |-> << <<"vlog", "<out>">> >>,
      sim_cmd |-> <<"vsim", "<out>", "\n">>],
     [tool |-> "vcs",
      compile_cmd |-> << <<"vcs", "<cwd>", "-o", "<out>">>, <<"ls", "<out>">> >>,
      sim_cmd |-> <<"<out>", "/vcs_simv", "<cwd>", "\n">>],
     [tool |-> "ius", compile_cmd |-> << <<"irun", "<out>", "<cwd>">> >>,
      sim_cmd |-> <<"irun", "-R", "<out>", "\n">>],
     [tool |-> "vcs", compile_cmd |-> << <<"vcs2", "<out>">> >>,
      sim_cmd |-> <<"vcs2_simv", "\n">>] >>

\* yaml/iss.yaml: the entries of the instruction set simulators, likewise
IssYaml ==
  << [iss |-> "Sail", path_var |-> "SPIKE_PATH",
      cmd |-> <<"<path_var>", "/sail", "<elf>", "\n">>],
     [iss |-> "spike", path_var |-> "SPIKE_PATH",
      cmd |-> <<"<path_var>", "/spike", "--isa=", "<variant>", "<elf>", "\n">>],
     [iss |-> "ovpsim", path_var |-> "OVPSIM_PATH",
      cmd |-> <<"<path_var>", "/ovpsim", "--variant", "<variant>", "<elf>", "\n">>],
     [iss |-> "OVPSIM", path_var |-> "OVPSIM_PATH",
      cmd |-> <<"<path_var>", "/OVPSIM", "<variant>", "<elf>", "\n">>],
     [iss |-> "spike", path_var |-> "OVPSIM_PATH",
      cmd |-> <<"<path_var>", "/spike2", "<elf>", "\n">>] >>

Simulators == {"vcs", "ius", "questa"}   \* "questa" has no entry of that spelling
IssNames   == {"spike", "ovpsim", "sail"} \* "sail" has no entry of that spelling
EnvVars    == {"RISCV_GCC", "RISCV_OBJCOPY", "SPIKE_PATH", "OVPSIM_PATH"}

\* Variant: the compare test placed before the simulate test.
StageOrderCmpFirst == <<"gen", "gcc_compile", "iss_cmp", "iss_sim">>

\* The four stage tests of the script, in program order.
StageOrder == <<"gen", "gcc_compile", "iss_sim", "iss_cmp">>
Stages     == {StageOrder[k] : k \in DOMAIN StageOrder}

Min(S) == CHOOSE x \in S : \A y \in S : x <= y
Max(S) == CHOOSE x \in S : \A y \in S : x >= y

\* Variant: the last entry whose field equals the name.
LastMatch(yaml, key, name) ==
  LET hits == {k \in DOMAIN yaml : yaml[k][key] = name}
  IN  IF hits = {} THEN 0 ELSE Max(hits)

\* "for entry in yaml_data: if entry[key] == name": index of the first
\* entry whose field equals the name, 0 when the loop falls through.
FirstMatch(yaml, key, name) ==
  LET hits == {k \in DOMAIN yaml : yaml[k][key] = name}
  IN  IF hits = {} THEN 0 ELSE Min(hits)

(***************************************************************************)
(* External commands and report lines.                                     *)
(***************************************************************************)
\* One external command (or configuration file read) of stage stg.  test and
\* idx name the test iteration it is for; a and b are its operands (the
\* simulator names whose logs it writes or reads); pos is the position of
\* the simulator in the --iss list; files are the files it names and text
\* is the text of the command line, where the model resolves it; seed is
\* the seed a generator run embeds.
Cmd(kind, stg, test, idx, a, b, pos) ==
  [kind |-> kind, stage |-> stg, test |-> test, idx |-> idx,
   a |-> a, b |-> b, pos |-> pos, files |-> <<>>, text |-> <<>>, seed |-> <<>>]

\* The command c with the files it names, in the order of the command line.
Files(c, fs) == [c EXCEPT !.files = fs]

\* The command c with the text of its command line.
Text(c, t) == [c EXCEPT !.text = t]

\* get_iss_cmd: re.sub("\<elf\>", elf, base_cmd) followed by " &> <log>".
get_iss_cmd(cmd, elf, log) == ReSub("<elf>", elf, cmd) \o <<" &> ">> \o log

\* Variant: the ISA upper-cased for every simulator.
VariantAlwaysUpper(name, text) == Upper(text)

\* parse_iss_yaml: isa.upper() if iss == "ovpsim", else isa.
Variant(name, text) == IF name = "ovpsim" THEN Upper(text) ELSE text

\* The command c with the seed of its +ntb_random_seed option.
Seeded(c, s) == [c EXCEPT !.seed = s]

\* random.getrandbits(32)
SeedBits == 32

\* Seeds are written as two halves <<hi, lo>> of SeedBits / 2 bits each,
\* the seed being hi * Half + lo: 2^32 - 1 is <<Half - 1, Half - 1>>.
Half == 2^(SeedBits \div 2)
Halves(n) == <<n \div Half, n % Half>>

\* random.getrandbits(32): any integer of [0, 2^32); the model draws the
\* least, the greatest, and two in between.
GetRandBits32 == {<<0, 0>>, <<0, 1>>, <<Half \div 2, 0>>, <<Half - 1, Half - 1>>}

\* Variant: the seed 0 taken for "no seed given".
GetSeedPositive(s) == IF s > 0 THEN {Halves(s)} ELSE GetRandBits32

\* get_seed: the seed itself if seed >= 0, else random.getrandbits(32);
\* the set of the values it can return.
get_seed(s) == IF s >= 0 THEN {Halves(s)} ELSE GetRandBits32

\* The captured output of an external command: of the n-th compile command
\* of the generator, or of the generator run for the n-th test case.
Output(by, n) == [by |-> by, n |-> n]

\* The local variable output of gen before its first assignment.
Unbound == [by |-> "unbound", n |-> 0]

\* Nothing was written by print(output).
Nothing == [by |-> "nothing", n |-> 0]

\* "%d" % i
RECURSIVE Dec(_)
Dec(i) ==
  IF i < 10
    THEN << CASE i = 0 -> "0" [] i = 1 -> "1" [] i = 2 -> "2" [] i = 3 -> "3"
              [] i = 4 -> "4" [] i = 5 -> "5" [] i = 6 -> "6" [] i = 7 -> "7"
              [] i = 8 -> "8" [] i = 9 -> "9" >>
    ELSE Dec(i \div 10) \o Dec(i % 10)

\* File names.  A file name is a sequence of characters, the directory
\* parts "/asm_tests/" and "_sim/" and the extension words being one
\* element each.
\* gcc_compile and iss_sim: prefix = "%s/asm_tests/%s.%d" % (output_dir, test, i)
Prefix(dir, test, i) == dir \o <<"/asm_tests/">> \o Chars(test) \o <<".">> \o Dec(i)
\* asm = prefix + ".S", elf = prefix + ".o", binary = prefix + ".bin"
Asm(dir, test, i)    == Prefix(dir, test, i) \o <<".", "S">>
Elf(dir, test, i)    == Prefix(dir, test, i) \o <<".", "o">>
Binary(dir, test, i) == Prefix(dir, test, i) \o <<".", "bin">>
\* iss_sim: log_dir = "%s/%s_sim" % (output_dir, iss) and
\* log = "%s/%s.%d.log" % (log_dir, test, i)
LogDir(dir, name) == dir \o <<"/">> \o Chars(name) \o <<"_sim">>
Log(dir, name, test, i) ==
  LogDir(dir, name) \o <<"/">> \o Chars(test) \o <<".">> \o Dec(i) \o <<".", "log">>

\* Variant: the compare stage reading the simulator log of the next index.
CmpLogNextIndex(dir, name, test, i) ==
  dir \o <<"/">> \o Chars(name) \o <<"_sim", "/">> \o Chars(test) \o <<".">>
      \o Dec(i + 1) \o <<".", "log">>

\* iss_cmp: elf = "%s/asm_tests/%s.%d.o" % (output_dir, test, i) and
\* iss_N_log = "%s/%s_sim/%s.%d.log" % (output_dir, iss_list[N], test, i)
CmpElf(dir, test, i) ==
  dir \o <<"/asm_tests/">> \o Chars(test) \o <<".">> \o Dec(i) \o <<".", "o">>
CmpLog(dir, name, test, i) ==
  dir \o <<"/">> \o Chars(name) \o <<"_sim", "/">> \o Chars(test) \o <<".">>
      \o Dec(i) \o <<".", "log">>

\* One line of the report file.  text is "Test binary" for the label line
\* of an iteration, "PASSED", "FAILED" or "ERROR" for what the comparator
\* wrote, "summary" for the line "<p> PASSED, <f> FAILED".
Line(text, test, idx, p, f) ==
  [text |-> text, test |-> test, idx |-> idx, p |-> p, f |-> f]

\* A report left by an earlier run of the compare stage.
OldReport ==
  << Line("Test binary", "t0", 0, 0, 0), Line("PASSED", "", 0, 0, 0),
     Line("summary", "", 0, 1, 0) >>

\* grep PASSED / grep FAILED select the lines containing the marker; the
\* summary line "<p> PASSED, <f> FAILED" contains both.
HasMarker(line, marker) == line.text = marker \/ line.text = "summary"

RECURSIVE GrepCount(_, _)
GrepCount(lines, marker) ==
  IF Len(lines) = 0 THEN 0
  ELSE (IF HasMarker(lines[1], marker) THEN 1 ELSE 0)
       + GrepCount(Tail(lines), marker)

\* Text that run_cmd("grep <marker> <report> | wc -l").strip() returns: the
\* count n printed by wc, preceded by the complaint of grep ("No such file
\* or directory", err) when the report file does not exist: Popen merges
\* the standard error of the shell command into the captured output.
Captured(err, n) == [err |-> err, n |-> n]

\* passed_cnt and failed_cnt before their assignment.
Unassigned == [err |-> FALSE, n |-> -1]

\* What one run of ./iss_cmp can do: exit status and the line it appends.
CmpOutcomes ==
  { [st |-> 0, text |-> "PASSED"], [st |-> 0, text |-> "FAILED"],
    [st |-> 1, text |-> "ERROR"] }

(***************************************************************************)
(* Inputs of a run.                                                        *)
(***************************************************************************)
TestNames == <<"t0", "t1", "t2">>

StepsLists ==
  {<<"all">>} \cup
  UNION { { s \in [1..n -> Stages] : \A i, j \in 1..n : i # j => s[i] # s[j] }
          : n \in 0..MaxSteps }

RECURSIVE Work(_)
Work(list) ==
  IF Len(list) = 0 THEN 0 ELSE list[1].iterations + Work(Tail(list))

\* The selections of at most MaxTests test cases named names[1], names[2], ...
ListsOf(names) ==
  { l \in UNION { { [k \in 1..n |-> [test |-> names[k], iterations |-> f[k]]]
                    : f \in [1..n -> 0..MaxIter] }
                  : n \in 0..MaxTests }
      : Work(l) <= MaxWork }

TestLists == ListsOf(TestNames)

\* Test names of which one is the beginning of another and ends like an
\* iteration index.
DottedNames == <<"t", "t.0", "t.1">>

IssLists == UNION { [1..n -> IssNames] : n \in 1..MaxIss }

Environs == { EnvVars \ m : m \in {{}} \cup { {v} : v \in EnvVars } }

Input(S, M, I, G, SO, CO, E, R) ==
  [steps : S, matched_list : M, iss : I, simulator : G, so : SO, co : CO,
   environ : E, report : R]

\* The runs explored: every --steps value over every test selection; the
\* generator options; the --iss lists, with a report of an earlier run in
\* place; the environments.
InputSpace ==
  Input(StepsLists, TestLists, {<<"ovpsim", "spike">>}, {"vcs"}, {FALSE},
        {FALSE}, {EnvVars}, {<<>>})
  \cup
  Input({<<"all">>, <<"gen">>}, TestLists, {<<"spike">>}, Simulators, BOOLEAN,
        BOOLEAN, {EnvVars}, {<<>>})
  \cup
  Input({<<"all">>, <<"iss_sim">>, <<"iss_cmp">>},
        {l \in TestLists : Work(l) <= MinWork}, IssLists, {"vcs"},
        {FALSE}, {FALSE}, {EnvVars}, {OldReport})
  \cup
  Input({<<"all">>, <<"gcc_compile">>, <<"iss_sim">>}, TestLists,
        {<<"spike", "ovpsim">>}, {"vcs"}, {FALSE}, {FALSE}, Environs, {<<>>})

\* The arguments that do not change the course of a run.
DefaultArgs ==
  [output_dir |-> <<"out">>, cwd |-> <<"cwd">>, isa |-> <<"r", "v">>,
   iss_path |-> <<"/opt">>, seed |-> 0]

\* The state in which the script starts with inputs inp and arguments arg.
Start(inp, arg) ==
  /\ steps = inp.steps
  /\ matched_list = inp.matched_list
  /\ iss = inp.iss
  /\ simulator = inp.simulator
  /\ so = inp.so
  /\ co = inp.co
  /\ environ = inp.environ
  /\ report = inp.report
  /\ report0 = inp.report
  /\ output_dir = arg.output_dir
  /\ cwd = arg.cwd
  /\ isa = arg.isa
  /\ iss_path = arg.iss_path
  /\ seed = arg.seed
  /\ pc = "main"
  /\ stage = 0
  /\ exit_code = -1
  /\ exit_how = "running"
  /\ calls = <<>>
  /\ trace = <<>>
  /\ status = "none"
  /\ compile_cmd = <<>>
  /\ sim_cmd = <<>>
  /\ output = Unbound
  /\ shown = Nothing
  /\ ci = 1
  /\ si = 1
  /\ ti = 1
  /\ ii = 0
  /\ base_cmd = <<>>
  /\ iss_list = <<>>
  /\ passed_cnt = Unassigned
  /\ failed_cnt = Unassigned

Init == \E inp \in InputSpace : Start(inp, DefaultArgs)

(***************************************************************************)
(* Control transfers.                                                      *)
(***************************************************************************)
\* The process terminates: sys.exit(...) or an uncaught exception (status
\* 1), or the end of the script (status 0).
Terminate(code, how) ==
  /\ pc' = "exit"
  /\ exit_code' = code
  /\ exit_how' = how
  /\ UNCHANGED stage

\* A stage function returns: the next --steps test follows.
Return ==
  /\ pc' = "steps"
  /\ stage' = stage + 1
  /\ UNCHANGED <<exit_code, exit_how>>

Goto(label) ==
  /\ pc' = label
  /\ UNCHANGED <<stage, exit_code, exit_how>>

\* Bookkeeping of the external commands cmds, the last of which ended
\* with outcome oc.
Issue(cmds, oc) ==
  /\ trace' = trace \o cmds
  /\ status' = oc
  /\ UNCHANGED calls

StatusOf(st) == IF st = 0 THEN "ok" ELSE "nonzero"

(***************************************************************************)
(* Script body: output directories and test selection.                     *)
(***************************************************************************)
\* Variant: the selection check left out.
EmptySelectionIgnored == FALSE

\* len(matched_list) == 0
EmptySelection == Len(matched_list) = 0

\* mkdir -p <o>, mkdir -p <o>/asm_tests, then the selection check.
main ==
  /\ pc = "main"
  /\ Issue(<< Cmd("mkdir", "main", "", 0, "out", "", 0),
              Cmd("mkdir", "main", "", 0, "asm_tests", "", 0) >>, "ok")
  /\ IF EmptySelection
       THEN Terminate(1, "sys.exit")
       ELSE /\ pc' = "steps"
            /\ stage' = 1
            /\ UNCHANGED <<exit_code, exit_how>>
  /\ UNCHANGED <<inputs, genv, loopv, cmpv>>

\* First position of each stage function.
Entry(name) == IF name = "gcc_compile" THEN "gcc" ELSE name

\* One "if args.steps == 'all' or re.match(<stage>, args.steps): <stage>(...)".
dispatch ==
  /\ pc = "steps"
  /\ stage <= Len(StageOrder)
  /\ IF StepSelected(StageOrder[stage])
       THEN /\ calls' = Append(calls, StageOrder[stage])
            /\ Goto(Entry(StageOrder[stage]))
       ELSE /\ pc' = "steps"
            /\ stage' = stage + 1
            /\ UNCHANGED <<calls, exit_code, exit_how>>
  /\ ci' = 1
  /\ si' = 1
  /\ ti' = 1
  /\ ii' = 0
  /\ UNCHANGED <<inputs, trace, status, compile_cmd, sim_cmd, output, shown,
                 base_cmd, cmpv>>

\* The end of the script is reached: the process exits with status 0.
script_end ==
  /\ pc = "steps"
  /\ stage > Len(StageOrder)
  /\ Terminate(0, "end")
  /\ UNCHANGED <<inputs, hist, genv, loopv, cmpv>>

(***************************************************************************)
(* run_cmd and subprocess.check_output.                                    *)
(***************************************************************************)
\* Variant: run_cmd terminating the process on a nonzero exit status.
RunCmdChecked(st) == st # 0

\* run_cmd: Popen(...) does not look at the exit status, and Popen never
\* raises CalledProcessError, so the except branch is never taken: the
\* output is returned whatever the exit status st.
RunCmdAborts(st) == FALSE

\* Variant: the exit status of the toolchain commands ignored.
CheckOutputLenient(st) == FALSE

\* subprocess.check_output raises CalledProcessError on a nonzero status.
CheckOutputRaises(st) == st # 0

(***************************************************************************)
(* gen                                                                     *)
(***************************************************************************)
get_generator_cmd ==
  /\ pc = "gen"
  /\ Issue(<< Cmd("read_yaml", "gen", "", 0, simulator, "", 0) >>,
           "ok")
  /\ LET k == FirstMatch(SimulatorYaml, "tool", simulator)
     IN  IF k = 0
           THEN /\ Terminate(1, "sys.exit")
                /\ UNCHANGED <<compile_cmd, sim_cmd>>
           ELSE /\ compile_cmd' = SimulatorYaml[k].compile_cmd
                /\ sim_cmd' = SimulatorYaml[k].sim_cmd
                /\ Goto("gen_compile")
  /\ UNCHANGED <<inputs, output, ci, shown, loopv, cmpv>>

\* "if not sim_only: for cmd in compile_cmd: ... output = run_cmd(cmd)",
\* each command after re.sub("<out>", output_dir, cmd) and
\* re.sub("<cwd>", cwd, cmd); after the loop, "if not compile_only:" the
\* same two substitutions in sim_cmd.
gen_compile ==
  /\ pc = "gen_compile"
  /\ IF so \/ ci > Len(compile_cmd)
       THEN /\ sim_cmd' = IF co THEN sim_cmd
                                ELSE ReSub("<cwd>", cwd,
                                           ReSub("<out>", output_dir, sim_cmd))
            /\ Goto("gen_run")
            /\ UNCHANGED <<hist, output, ci>>
       ELSE \E st \in {0, 1} :
              /\ Issue(<< Text(Cmd("gen_compile", "gen", "", ci, "", "", 0),
                               ReSub("<cwd>", cwd,
                                     ReSub("<out>", output_dir, compile_cmd[ci])))
                       >>, StatusOf(st))
              /\ IF RunCmdAborts(st)
                   THEN /\ Terminate(1, "sys.exit")
                        /\ UNCHANGED <<output, ci>>
                   ELSE /\ output' = Output("gen_compile", ci)
                        /\ ci' = ci + 1
                        /\ Goto("gen_compile")
              /\ UNCHANGED sim_cmd
  /\ UNCHANGED <<inputs, compile_cmd, shown, loopv, cmpv>>

\* Variant: a timeout not ending the run.
GenRunEndNoTimeout(oc) ==
  CASE oc = "ok"      -> "continue"
    [] oc = "nonzero" -> IF output = Unbound THEN "exception" ELSE "sys.exit"
    [] oc = "timeout" -> "continue"

\* How the run phase ends an invocation with outcome oc: check_output
\* returns ("continue"); CalledProcessError is caught, print(output) is
\* executed (UnboundLocalError if output was never assigned) and sys.exit(1)
\* follows; TimeoutExpired is not caught.
GenRunEnd(oc) ==
  CASE oc = "ok"      -> "continue"
    [] oc = "nonzero" -> IF output = Unbound THEN "exception" ELSE "sys.exit"
    [] oc = "timeout" -> "exception"

\* Variant: a generator run for every test case of the selection.
AnyIterations(test) == test.iterations >= 0

\* if test['iterations'] > 0
HasIterations(test) == test.iterations > 0

\* "if not compile_only: for test in test_list: if test['iterations'] > 0: ..."
\* The command embeds rand_seed = get_seed(seed).  When check_output raises
\* CalledProcessError, print(output) writes the value that the variable
\* output holds: the assignment of the failing call did not take place.
gen_run ==
  /\ pc = "gen_run"
  /\ IF co \/ ti > Len(matched_list)
       THEN /\ Return
            /\ UNCHANGED <<hist, output, shown, ti>>
       ELSE IF ~HasIterations(matched_list[ti])
       THEN /\ ti' = ti + 1
            /\ Goto("gen_run")
            /\ UNCHANGED <<hist, output, shown>>
       ELSE \E oc \in {"ok", "nonzero", "timeout"} :
            \E rand_seed \in get_seed(seed) :
              /\ Issue(<< Seeded(Text(Cmd("gen_run", "gen", matched_list[ti].test,
                                          matched_list[ti].iterations, "", "", 0),
                                      Rstrip(sim_cmd)),
                                 rand_seed) >>,
                       oc)
              /\ IF GenRunEnd(oc) = "continue"
                   THEN /\ output' = Output("gen_run", ti)
                        /\ ti' = ti + 1
                        /\ Goto("gen_run")
                        /\ UNCHANGED shown
                   ELSE /\ Terminate(1, GenRunEnd(oc))
                        /\ shown' = IF GenRunEnd(oc) = "sys.exit" THEN output
                                                                  ELSE shown
                        /\ UNCHANGED <<output, ti>>
  /\ UNCHANGED <<inputs, compile_cmd, sim_cmd, ci, si, ii, base_cmd, cmpv>>

(***************************************************************************)
(* gcc_compile                                                             *)
(***************************************************************************)
\* Loop head of "for test in test_list: for i in range(0, iterations)",
\* then get_env_var("RISCV_GCC") and the gcc invocation.
gcc_compile ==
  /\ pc = "gcc"
  /\ IF ti > Len(matched_list)
       THEN /\ Return
            /\ UNCHANGED <<hist, ti, ii>>
       ELSE IF ii >= matched_list[ti].iterations
       THEN /\ ti' = ti + 1
            /\ ii' = 0
            /\ Goto("gcc")
            /\ UNCHANGED hist
       ELSE IF "RISCV_GCC" \notin environ
       THEN /\ Terminate(1, "sys.exit")
            /\ UNCHANGED <<hist, ti, ii>>
       ELSE \E st \in {0, 1} :
              /\ Issue(<< Files(Cmd("gcc", "gcc_compile", matched_list[ti].test,
                                    ii, "", "", 0),
                                << Asm(output_dir, matched_list[ti].test, ii),
                                   Elf(output_dir, matched_list[ti].test, ii) >>)
                       >>, StatusOf(st))
              /\ IF CheckOutputRaises(st)
                   THEN Terminate(1, "exception")
                   ELSE Goto("objcopy")
              /\ UNCHANGED <<ti, ii>>
  /\ UNCHANGED <<inputs, genv, si, base_cmd, cmpv>>

\* get_env_var("RISCV_OBJCOPY") and the objcopy invocation.
objcopy ==
  /\ pc = "objcopy"
  /\ IF "RISCV_OBJCOPY" \notin environ
       THEN /\ Terminate(1, "sys.exit")
            /\ UNCHANGED <<hist, ii>>
       ELSE \E st \in {0, 1} :
              /\ Issue(<< Files(Cmd("objcopy", "gcc_compile",
                                    matched_list[ti].test, ii, "", "", 0),
                                << Elf(output_dir, matched_list[ti].test, ii),
                                   Binary(output_dir, matched_list[ti].test, ii) >>)
                       >>, StatusOf(st))
              /\ IF CheckOutputRaises(st)
                   THEN /\ Terminate(1, "exception")
                        /\ UNCHANGED ii
                   ELSE /\ ii' = ii + 1
                        /\ Goto("gcc")
  /\ UNCHANGED <<inputs, genv, si, ti, base_cmd, cmpv>>

(***************************************************************************)
(* iss_sim                                                                 *)
(***************************************************************************)
\* Loop head of "for iss in iss_list.split(',')", parse_iss_yaml (entry
\* lookup and get_env_var of its path_var) and mkdir -p of the log directory.
parse_iss_yaml ==
  /\ pc = "iss_sim"
  /\ IF si > Len(iss)
       THEN /\ Return
            /\ UNCHANGED <<hist, base_cmd, ti, ii>>
       ELSE LET k == FirstMatch(IssYaml, "iss", iss[si])
                rd == Cmd("read_yaml", "iss_sim", "", 0, iss[si], "", si)
            IN  IF k = 0 \/ IssYaml[k].path_var \notin environ
                  THEN /\ Issue(<<rd>>, "ok")
                       /\ Terminate(1, "sys.exit")
                       /\ UNCHANGED <<base_cmd, ti, ii>>
                  ELSE /\ Issue(<< rd, Cmd("mkdir", "iss_sim", "", 0, iss[si], "", si) >>,
                                "ok")
                       /\ base_cmd' =
                            ReSub("<variant>", Variant(iss[si], isa),
                                  ReSub("<path_var>", iss_path,
                                        Rstrip(IssYaml[k].cmd)))
                       /\ ti' = 1
                       /\ ii' = 0
                       /\ Goto("iss_run")
  /\ UNCHANGED <<inputs, genv, si, cmpv>>

\* Loop head of the test and iteration loops of iss_sim, and run_cmd(cmd).
iss_run ==
  /\ pc = "iss_run"
  /\ IF ti > Len(matched_list)
       THEN /\ si' = si + 1
            /\ Goto("iss_sim")
            /\ UNCHANGED <<hist, ti, ii>>
       ELSE IF ii >= matched_list[ti].iterations
       THEN /\ ti' = ti + 1
            /\ ii' = 0
            /\ Goto("iss_run")
            /\ UNCHANGED <<hist, si>>
       ELSE \E st \in {0, 1} :
              /\ LET elf == Elf(output_dir, matched_list[ti].test, ii)
                     log == Log(output_dir, iss[si], matched_list[ti].test, ii)
                 IN  Issue(<< Text(Files(Cmd("iss_run", "iss_sim",
                                               matched_list[ti].test, ii, iss[si],
                                               "", si),
                                           <<elf, log>>),
                                     get_iss_cmd(base_cmd, elf, log)) >>,
                           StatusOf(st))
              /\ IF RunCmdAborts(st)
                   THEN /\ Terminate(1, "sys.exit")
                        /\ UNCHANGED ii
                   ELSE /\ ii' = ii + 1
                        /\ Goto("iss_run")
              /\ UNCHANGED <<si, ti>>
  /\ UNCHANGED <<inputs, genv, base_cmd, cmpv>>

(***************************************************************************)
(* iss_cmp                                                                 *)
(***************************************************************************)
\* Variant: only a list of fewer than two names skipped.
FewerThanTwo(l) == Len(l) < 2

\* Variant: the pair swapped whenever either name is "spike".
SwapIfEither(l) == l[1] = "spike" \/ l[2] = "spike"

\* Variant: the report of an earlier run left in place.
RmKeeps(file) == file

\* run_cmd("rm -rf <report>"): the file is absent afterwards.
RmRf(file) == <<>>

\* len(iss_list) != 2
NotAPair(l) == Len(l) # 2

\* iss_list[1] == "spike" (Python index 1 is the second name)
SwapNeeded(l) == l[2] = "spike"

\* "iss_list = iss.split(','); if len(iss_list) != 2: return", then
\* run_cmd("rm -rf <report>").
iss_cmp ==
  /\ pc = "iss_cmp"
  /\ iss_list' = iss
  /\ IF NotAPair(iss)
       THEN /\ Return
            /\ UNCHANGED <<hist, report>>
       ELSE /\ Issue(<< Cmd("rm", "iss_cmp", "", 0, "", "", 0) >>, "ok")
            /\ report' = RmRf(report)
            /\ Goto("cmp_loop")
  /\ ti' = 1
  /\ ii' = 0
  /\ UNCHANGED <<inputs, genv, si, base_cmd, passed_cnt, failed_cnt>>

\* Loop head of the test and iteration loops of iss_cmp, the swap of the
\* pair and run_cmd("echo 'Test binary: <elf>' >> <report>").
iss_cmp_label ==
  /\ pc = "cmp_loop"
  /\ IF ti > Len(matched_list)
       THEN /\ Goto("cmp_summary")
            /\ UNCHANGED <<hist, ti, ii, iss_list, report>>
       ELSE IF ii >= matched_list[ti].iterations
       THEN /\ ti' = ti + 1
            /\ ii' = 0
            /\ Goto("cmp_loop")
            /\ UNCHANGED <<hist, iss_list, report>>
       ELSE /\ iss_list' = IF SwapNeeded(iss_list)
                             THEN <<iss_list[2], iss_list[1]>>
                             ELSE iss_list
            /\ Issue(<< Files(Cmd("echo_label", "iss_cmp", matched_list[ti].test,
                                  ii, "", "", 0),
                              << CmpElf(output_dir, matched_list[ti].test, ii) >>)
                     >>, "ok")
            /\ report' = Append(report,
                                Line("Test binary", matched_list[ti].test, ii, 0, 0))
            /\ IF RunCmdAborts(0)
                 THEN Terminate(1, "sys.exit")
                 ELSE Goto("cmp_run")
            /\ UNCHANGED <<ti, ii>>
  /\ UNCHANGED <<inputs, genv, si, base_cmd, passed_cnt, failed_cnt>>

\* run_cmd("./iss_cmp <iss_0_log> <iss_1_log> <report> &>> <report>")
iss_cmp_run ==
  /\ pc = "cmp_run"
  /\ \E oc \in CmpOutcomes :
       /\ Issue(<< Files(Cmd("iss_cmp", "iss_cmp", matched_list[ti].test, ii,
                             iss_list[1], iss_list[2], 0),
                         << CmpLog(output_dir, iss_list[1], matched_list[ti].test,
                                   ii),
                            CmpLog(output_dir, iss_list[2], matched_list[ti].test,
                                   ii) >>)
                >>, StatusOf(oc.st))
       /\ report' = Append(report, Line(oc.text, "", 0, 0, 0))
       /\ IF RunCmdAborts(oc.st)
            THEN /\ Terminate(1, "sys.exit")
                 /\ UNCHANGED ii
            ELSE /\ ii' = ii + 1
                 /\ Goto("cmp_loop")
  /\ UNCHANGED <<inputs, genv, si, ti, base_cmd, iss_list, passed_cnt, failed_cnt>>

\* The two grep | wc -l counts and run_cmd("echo <summary> >> <report>").
\* The report file exists only if a label line was appended to it since
\* rm -rf.  When it does not, each captured text is grep's complaint, a line
\* break and "0", so the shell command built from the summary is three
\* lines: "echo grep: ...", "0 PASSED, grep: ..." and "0 FAILED >> <report>".
\* The echo writes to the captured output, the other two are not commands;
\* the redirection of the last leaves the report empty, with no summary.
iss_cmp_summary ==
  /\ pc = "cmp_summary"
  /\ LET absent == report = <<>>
     IN  /\ passed_cnt' = Captured(absent, GrepCount(report, "PASSED"))
         /\ failed_cnt' = Captured(absent, GrepCount(report, "FAILED"))
         /\ Issue(<< Cmd("grep", "iss_cmp", "", 0, "PASSED", "", 0),
                     Cmd("grep", "iss_cmp", "", 0, "FAILED", "", 0),
                     Cmd("echo_summary", "iss_cmp", "", 0, "", "", 0) >>,
                  StatusOf(IF absent THEN 127 ELSE 0))
         /\ report' = IF absent
                        THEN <<>>
                        ELSE Append(report, Line("summary", "", 0,
                                                 passed_cnt'.n, failed_cnt'.n))
  /\ Return
  /\ UNCHANGED <<inputs, genv, loopv, iss_list>>

(***************************************************************************)
(* Specification.                                                          *)
(***************************************************************************)
Next ==
  \/ main
  \/ dispatch
  \/ script_end
  \/ get_generator_cmd
  \/ gen_compile
  \/ gen_run
  \/ gcc_compile
  \/ objcopy
  \/ parse_iss_yaml
  \/ iss_run
  \/ iss_cmp
  \/ iss_cmp_label
  \/ iss_cmp_run
  \/ iss_cmp_summary

Spec == Init /\ [][Next]_vars

(***************************************************************************)
(* Runs of the script with --steps gen over seeds given and not given.     *)
(***************************************************************************)
InitSeed ==
  \E inp \in Input({<<"gen">>}, TestLists, {<<"spike">>}, {"vcs"}, {FALSE},
                   {FALSE}, {EnvVars}, {<<>>}) :
    \E n \in {-5, -1, 0, 7} :
      Start(inp, [DefaultArgs EXCEPT !.seed = n])

NextGen ==
  \/ main
  \/ dispatch
  \/ script_end
  \/ get_generator_cmd
  \/ gen_compile
  \/ gen_run

SpecSeed == InitSeed /\ [][NextGen]_vars

(***************************************************************************)
(* Two runs on one output directory: a run of all stages that starts       *)
(* without report, and after its normal end a run of the script with       *)
(* --steps iss_cmp and otherwise the same arguments, which finds the       *)
(* report of the first run.                                                *)
(***************************************************************************)
InitRerun ==
  \E inp \in Input({<<"all">>}, TestLists, {<<"ovpsim", "spike">>}, {"vcs"},
                   {FALSE}, {FALSE}, {EnvVars}, {<<>>}) :
    Start(inp, DefaultArgs)

\* The script is started again, with --steps iss_cmp.
rerun ==
  /\ pc = "exit"
  /\ exit_how = "end"
  /\ steps = <<"all">>
  /\ steps' = <<"iss_cmp">>
  /\ report0' = report
  /\ pc' = "main"
  /\ stage' = 0
  /\ exit_code' = -1
  /\ exit_how' = "running"
  /\ calls' = <<>>
  /\ trace' = <<>>
  /\ status' = "none"
  /\ compile_cmd' = <<>>
  /\ sim_cmd' = <<>>
  /\ output' = Unbound
  /\ shown' = Nothing
  /\ ci' = 1
  /\ si' = 1
  /\ ti' = 1
  /\ ii' = 0
  /\ base_cmd' = <<>>
  /\ iss_list' = <<>>
  /\ passed_cnt' = Unassigned
  /\ failed_cnt' = Unassigned
  /\ UNCHANGED <<matched_list, iss, simulator, so, co, environ, output_dir, cwd,
                 isa, iss_path, seed, report>>

NextRerun ==
  \/ Next
  \/ rerun

SpecRerun == InitRerun /\ [][NextRerun]_vars

(***************************************************************************)
(* Complete runs of the four stages over test names that resemble the file *)
(* names built from them.                                                  *)
(***************************************************************************)
InitNames ==
  \E inp \in Input({<<"all">>}, ListsOf(DottedNames),
                   {<<"ovpsim", "spike">>, <<"spike", "ovpsim">>}, {"vcs"},
                   {FALSE}, {FALSE}, {EnvVars}, {<<>>}) :
    \E dir \in {<<"out">>, <<"o", ".", "1">>} :
      Start(inp, [DefaultArgs EXCEPT !.output_dir = dir])

SpecNames == InitNames /\ [][Next]_vars

(***************************************************************************)
(* Complete runs of one test iteration over argument values and            *)
(* environment values that themselves hold placeholders, and over ISA      *)
(* names in lower and in mixed case.                                       *)
(***************************************************************************)
InitTemplates ==
  \E inp \in Input({<<"all">>}, {<< [test |-> "t0", iterations |-> 1] >>},
                   {<<"ovpsim", "spike">>, <<"OVPSIM", "spike">>}, {"vcs", "ius"},
                   {FALSE}, {FALSE}, {EnvVars}, {<<>>}) :
    \E arg \in [output_dir : {<<"out">>, <<"out", "<cwd>">>},
                cwd        : {<<"cwd">>, <<"<out>">>},
                isa        : {<<"r", "v">>, <<"R", "v", "<elf>">>},
                iss_path   : {<<"/opt">>, <<"/opt", "<variant>">>},
                seed       : {0}] :
      Start(inp, arg)

SpecTemplates == InitTemplates /\ [][Next]_vars

(***************************************************************************)
(* Vocabulary of the properties.                                           *)
(***************************************************************************)
\* The stage is named by the --steps value: the value is "all" or the
\* stage is one of the names of the comma-separated list.
Named(s) == steps = <<"all">> \/ \E k \in DOMAIN steps : steps[k] = s

\* The stage function has been called.
Called(s) == \E k \in DOMAIN calls : calls[k] = s

\* Position of a stage in the pipeline gen, gcc_compile, iss_sim, iss_cmp
\* (0 for the script body before the stages).
Rank(s) ==
  CASE s = "main" -> 0 [] s = "gen" -> 1 [] s = "gcc_compile" -> 2
    [] s = "iss_sim" -> 3 [] s = "iss_cmp" -> 4

\* Indices of the commands of a kind, and of a kind for one test iteration.
OfKind(kind) == {k \in DOMAIN trace : trace[k].kind = kind}
OfStage(s)   == {k \in DOMAIN trace : trace[k].stage = s}
For(kind, t, i) ==
  {k \in DOMAIN trace :
     trace[k].kind = kind /\ trace[k].test = matched_list[t].test /\ trace[k].idx = i}

\* The test iterations of the selection: pairs <<t, i>>, i in [0, iterations).
Iterations ==
  {<<t, i>> \in (DOMAIN matched_list) \X (0..MaxIter + 1) :
     i < matched_list[t].iterations}

LastKind == IF Len(trace) = 0 THEN "none" ELSE trace[Len(trace)].kind

Ended    == pc = "exit" /\ exit_how = "end"
Aborted  == pc = "exit" /\ exit_code # 0

\* Position in matched_list of the test case of that name.
TestIndex(name) == CHOOSE t \in DOMAIN matched_list : matched_list[t].test = name

\* <<t, i>> of command k is before <<t, i>> of command l.
Earlier(k, l) ==
  \/ TestIndex(trace[k].test) < TestIndex(trace[l].test)
  \/ trace[k].test = trace[l].test /\ trace[k].idx < trace[l].idx

\* The text in which every placeholder of the template is replaced by its
\* value, the values being copied as they are.
RECURSIVE OnePass(_, _)
OnePass(template, value) ==
  IF Len(template) = 0 THEN <<>>
  ELSE (IF template[1] \in DOMAIN value THEN value[template[1]]
                                        ELSE <<template[1]>>)
       \o OnePass(Tail(template), value)

\* The values of the placeholders of the generator commands, and of the
\* command of the simulator called name for the object file elf.
GenValues == ("<out>" :> output_dir) @@ ("<cwd>" :> cwd)
IssValues(name, elf) ==
  ("<path_var>" :> iss_path) @@ ("<variant>" :> Variant(name, isa))
    @@ ("<elf>" :> elf)

\* Entry k of the profile file is the first one of that name.
IsFirst(yaml, key, name, k) ==
  /\ yaml[k][key] = name
  /\ \A j \in 1..k - 1 : yaml[j][key] # name

\* The profile file has an entry of that name.
Listed(yaml, key, name) == \E k \in DOMAIN yaml : yaml[k][key] = name

\* The lines of a report before its summary line.
Body(file) == IF file = <<>> THEN <<>> ELSE SubSeq(file, 1, Len(file) - 1)

\* Number of lines of that text in a report.
LinesOf(file, text) == Cardinality({n \in DOMAIN file : file[n].text = text})

\* iss_cmp was called with a pair of simulators and has returned.
CmpReturned ==
  /\ Called("iss_cmp")
  /\ Len(iss) = 2
  /\ pc \in {"steps", "exit"}

\* The name at position p of the list has an entry in the ISS profile file.
HasProfile(p) == FirstMatch(IssYaml, "iss", iss[p]) # 0

\* parse_iss_yaml returned a command for the name at position p, and for
\* every name before it: each has a profile whose path variable is set.
Resolved(p) ==
  \A q \in 1..p :
    /\ HasProfile(q)
    /\ IssYaml[FirstMatch(IssYaml, "iss", iss[q])].path_var \in environ

\* Simulator invocations issued for position p of the list and iteration <<t, i>>.
SimRuns(p, t, i) == {k \in For("iss_run", t, i) : trace[k].pos = p}

\* iss_sim was called and is over: it has just returned, or the process
\* has terminated (in iss_sim or after it).
SimOver ==
  /\ pc = "exit" \/ (pc = "steps" /\ stage = 4)
  /\ Called("iss_sim")

\* gen was called and returned: the script is past it, and if the process
\* has terminated, it did so at the end of the script or in a later stage.
GenReturned ==
  /\ Called("gen")
  /\ pc \notin {"gen", "gen_compile", "gen_run"}
  /\ pc = "exit" => (exit_how = "end" \/ calls # <<"gen">>)

\* gcc_compile was called and returned: it has just returned, or the
\* process has terminated after it.
GccReturned ==
  /\ (pc = "exit" /\ stage > 2) \/ (pc = "steps" /\ stage = 3)
  /\ Called("gcc_compile")

(***************************************************************************)
(* C1.  Every stage named in the --steps value ("all" or a comma-separated *)
(* list of stage names) has been executed when the script reaches its end  *)
(* without a stage terminating the run.  The code tests the names with     *)
(* re.match, which matches at the beginning of the value only, so only the *)
(* first name of a list is honoured: the property is violated.             *)
(***************************************************************************)
C1_EveryNamedStageRuns ==
  Ended => \A s \in Stages : Named(s) => Called(s)

(***************************************************************************)
(* C2.  The stages run in the fixed order gen, gcc_compile, iss_sim,       *)
(* iss_cmp whatever the order of the names in --steps: the stage calls are *)
(* strictly increasing in pipeline position (so no stage runs twice), and  *)
(* the commands issued never step back to an earlier stage (each command   *)
(* is of the same stage as the one before it or of a later one), and each  *)
(* is issued by a stage that was called.                                   *)
(***************************************************************************)
C2_FixedStageOrder ==
  /\ \A k \in 1..Len(calls) - 1 : Rank(calls[k]) < Rank(calls[k + 1])
  /\ \A k \in 1..Len(trace) - 1 :
       Rank(trace[k].stage) <= Rank(trace[k + 1].stage)
  /\ \A k \in DOMAIN trace : trace[k].stage # "main" => Called(trace[k].stage)

\* A complete run of all four stages, each of which issued commands.
C2_Witness ==
  /\ Ended
  /\ calls = <<"gen", "gcc_compile", "iss_sim", "iss_cmp">>
  /\ \A s \in Stages : OfStage(s) # {}

(***************************************************************************)
(* C3.  With --steps iss_cmp, a non-empty selection and two simulator      *)
(* names, the run issues no generator, toolchain or simulator command and  *)
(* reads no tool profile: besides the creation of the output directories   *)
(* by the script body, its commands are those of the compare stage, and    *)
(* the report it leaves, the selection having an iteration to compare,     *)
(* ends with the summary line.  In general a stage that --steps does not   *)
(* name is never called and issues no command.                             *)
(***************************************************************************)
C3_OnlyNamedStagesRun ==
  /\ \A s \in Stages : Called(s) => Named(s)
  /\ \A k \in DOMAIN trace : trace[k].stage # "main" => Named(trace[k].stage)
  /\ (steps = <<"iss_cmp">> /\ Len(matched_list) > 0 /\ Len(iss) = 2) =>
       /\ \A k \in DOMAIN trace :
            \/ trace[k].stage = "main" /\ trace[k].kind = "mkdir"
            \/ /\ trace[k].stage = "iss_cmp"
               /\ trace[k].kind \in {"rm", "echo_label", "iss_cmp", "grep",
                                     "echo_summary"}
       /\ OfKind("read_yaml") = {}
       /\ Ended => /\ calls = <<"iss_cmp">>
                   /\ Iterations # {} =>
                        /\ Len(report) > 0
                        /\ report[Len(report)].text = "summary"
                   /\ \A k \in OfKind("iss_cmp") :
                        \E n \in DOMAIN report :
                          /\ report[n].text = "Test binary"
                          /\ report[n].test = trace[k].test
                          /\ report[n].idx = trace[k].idx

\* A finished compare-only run that compared at least two iterations and
\* replaced an older report.
C3_Witness ==
  /\ steps = <<"iss_cmp">>
  /\ Len(iss) = 2
  /\ Ended
  /\ Cardinality(OfKind("iss_cmp")) >= 2
  /\ report0 = OldReport
  /\ report[Len(report)].text = "summary"

(***************************************************************************)
(* C4.  With an empty test selection the script terminates with a nonzero  *)
(* status and a message before any stage: no stage is called and no        *)
(* generator, compile, simulate or compare command is issued, whatever the *)
(* --steps value.                                                          *)
(***************************************************************************)
C4_EmptySelectionIsFatal ==
  Len(matched_list) = 0 =>
    /\ calls = <<>>
    /\ \A k \in DOMAIN trace : trace[k].stage = "main" /\ trace[k].kind = "mkdir"
    /\ pc \in {"main", "exit"}
    /\ pc = "exit" => exit_code # 0 /\ exit_how = "sys.exit"

C4_Witness ==
  /\ Len(matched_list) = 0
  /\ steps = <<"all">>
  /\ pc = "exit"
  /\ exit_code = 1

(***************************************************************************)
(* C5.  In the generate stage, a generator compile command that exits with *)
(* a nonzero status aborts the pipeline: whenever the last command issued  *)
(* is a generator compile command that exited nonzero, the process has     *)
(* terminated with a nonzero status (so that no later compile command, no  *)
(* generator run and no later stage follows).  run_cmd never looks at the  *)
(* exit status, so the property is violated.                               *)
(***************************************************************************)
C5_GenCompileFailureAborts ==
  (LastKind = "gen_compile" /\ status = "nonzero") => Aborted

(***************************************************************************)
(* C6.  In the generator run phase an invocation that exits nonzero or     *)
(* exceeds the timeout aborts the pipeline: whenever the last command      *)
(* issued is a generator run that failed in either way, the process has    *)
(* terminated with a nonzero status, so that no invocation follows for a   *)
(* later test case, and none of gcc_compile, iss_sim, iss_cmp has been     *)
(* called.  The invocations are issued in the order of the selection, at   *)
(* most one per test case.                                                 *)
(***************************************************************************)
C6_GenRunFailureAborts ==
  /\ (LastKind = "gen_run" /\ status \in {"nonzero", "timeout"}) =>
       /\ Aborted
       /\ calls = <<"gen">>
  /\ \A k \in OfKind("gen_run") :
       /\ matched_list[TestIndex(trace[k].test)].iterations > 0
       /\ \A l \in OfKind("gen_run") :
            k < l => TestIndex(trace[k].test) < TestIndex(trace[l].test)

\* The invocation for the second test case timed out after the first succeeded.
C6_Witness ==
  /\ LastKind = "gen_run"
  /\ status = "timeout"
  /\ Cardinality(OfKind("gen_run")) = 2
  /\ Len(matched_list) = 2
  /\ pc = "exit"

\* The invocation for the first test case exited nonzero.
C6_WitnessNonzero ==
  /\ LastKind = "gen_run"
  /\ status = "nonzero"
  /\ Cardinality(OfKind("gen_run")) = 1
  /\ Len(matched_list) = 2
  /\ pc = "exit"

(***************************************************************************)
(* C7.  gcc_compile issues, for each test case and each index i in         *)
(* [0, iterations), the compile and then, only after it succeeded, the     *)
(* binary conversion, in the order of the test cases and indices; if       *)
(* either exits nonzero the process terminates with a nonzero status:      *)
(* whenever the last command issued is a compile or a conversion that      *)
(* exited nonzero, the process has terminated (nothing follows for a later *)
(* test or index) and neither iss_sim nor iss_cmp has been called.         *)
(***************************************************************************)
C7_GccCompileFatal ==
  /\ \A k \in OfKind("objcopy") :
       /\ k > 1
       /\ trace[k - 1].kind = "gcc"
       /\ trace[k - 1].test = trace[k].test
       /\ trace[k - 1].idx = trace[k].idx
  /\ \A k \in OfKind("gcc") :
       /\ 0 <= trace[k].idx
       /\ trace[k].idx < matched_list[TestIndex(trace[k].test)].iterations
       /\ k < Len(trace) => trace[k + 1].kind = "objcopy"
       /\ (k + 2 <= Len(trace) /\ trace[k + 2].stage = "gcc_compile") =>
            /\ trace[k + 2].kind = "gcc"
            /\ Earlier(k, k + 2)
  /\ (LastKind \in {"gcc", "objcopy"} /\ status = "nonzero") =>
       /\ Aborted
       /\ ~Called("iss_sim")
       /\ ~Called("iss_cmp")
  /\ GccReturned =>
       \A <<t, i>> \in Iterations :
         /\ Cardinality(For("gcc", t, i)) = 1
         /\ Cardinality(For("objcopy", t, i)) = 1

\* The conversion of a later iteration failed after earlier iterations
\* were compiled and converted.
C7_Witness ==
  /\ LastKind = "objcopy"
  /\ status = "nonzero"
  /\ Cardinality(OfKind("gcc")) >= 2
  /\ Cardinality(OfKind("objcopy")) >= 2
  /\ steps = <<"all">>
  /\ pc = "exit"

(***************************************************************************)
(* C8 as stated.  Once the simulate stage is over, every simulator of the  *)
(* list that has a profile (the environment being complete) has been run   *)
(* exactly once for every test case and index.  Violated: a name without a *)
(* profile terminates the stage before the names after it are run.         *)
(***************************************************************************)
C8_EverySimulatorWithProfileRuns ==
  (SimOver /\ environ = EnvVars) =>
    \A p \in DOMAIN iss :
      HasProfile(p) =>
        \A <<t, i>> \in Iterations : Cardinality(SimRuns(p, t, i)) = 1

(***************************************************************************)
(* C8 as amended.  In the simulate and compare stages a failing invocation *)
(* never stops the stage: the process never terminates abnormally on a     *)
(* command of these stages; once the simulate stage is over, every         *)
(* simulator of the list whose command was resolved (it and every name     *)
(* before it in the list has a profile with its path variable set) has     *)
(* been run exactly once for every test case and index, and no other       *)
(* simulator has been run; with two simulators the compare stage issues    *)
(* exactly one comparison per test case and index; and with every          *)
(* simulator resolved the run reaches its normal end, the compare stage    *)
(* having been called whenever its --steps test selects it.                *)
(***************************************************************************)
C8_FailuresNeverStopSimOrCmp ==
  /\ LastKind \in {"iss_run", "rm", "echo_label", "iss_cmp", "grep",
                   "echo_summary"} => ~Aborted
  /\ SimOver =>
       \A p \in DOMAIN iss :
         \A <<t, i>> \in Iterations :
           Cardinality(SimRuns(p, t, i)) = IF Resolved(p) THEN 1 ELSE 0
  /\ \A k \in OfKind("iss_run") :
       /\ trace[k].idx < matched_list[TestIndex(trace[k].test)].iterations
       /\ trace[k].a = iss[trace[k].pos]
  /\ (Called("iss_cmp") /\ pc = "exit" /\ Len(iss) = 2) =>
       /\ Ended
       /\ \A <<t, i>> \in Iterations : Cardinality(For("iss_cmp", t, i)) = 1
       /\ Cardinality(OfKind("iss_cmp")) = Cardinality(Iterations)
  /\ (Called("iss_sim") /\ pc = "exit" /\ Resolved(Len(iss))) =>
       /\ Ended
       /\ StepSelected("iss_cmp") => Called("iss_cmp")

\* The last invocation of the second simulator exited nonzero and the
\* simulate stage has returned, every invocation having been issued.
C8_Witness ==
  /\ SimOver
  /\ pc = "steps"
  /\ LastKind = "iss_run"
  /\ status = "nonzero"
  /\ Len(iss) = 2
  /\ Cardinality(OfKind("iss_run")) = 2 * Cardinality(Iterations)
  /\ Cardinality(Iterations) >= 2

\* A complete run whose first comparison exited nonzero and whose later
\* comparisons were made all the same.
C8_WitnessCompare ==
  /\ Ended
  /\ Called("iss_sim")
  /\ Cardinality(OfKind("iss_cmp")) >= 2
  /\ report[2].text = "ERROR"

(***************************************************************************)
(* C9.  With a two-name list, every comparison of the run (every test case *)
(* and every index) has spike's log as its first operand and the other     *)
(* simulator's log as its second when one of the two names is "spike",     *)
(* whichever position it had; when neither is, the operands are in the     *)
(* order of the list.                                                      *)
(***************************************************************************)
C9_SpikeIsFirstOperand ==
  \A k \in OfKind("iss_cmp") :
    /\ Len(iss) = 2
    /\ IF iss[1] = "spike" \/ iss[2] = "spike"
         THEN /\ trace[k].a = "spike"
              /\ trace[k].b = IF iss[1] = "spike" THEN iss[2] ELSE iss[1]
         ELSE /\ trace[k].a = iss[1]
              /\ trace[k].b = iss[2]

\* spike given second: at least three comparisons made, the last one too
\* with spike first.
C9_Witness ==
  /\ iss = <<"ovpsim", "spike">>
  /\ Cardinality(OfKind("iss_cmp")) >= 3
  /\ LastKind = "iss_cmp"
  /\ trace[Len(trace)].a = "spike"
  /\ trace[Len(trace)].b = "ovpsim"

(***************************************************************************)
(* C10.  When the --iss list does not hold exactly two names, iss_cmp is a *)
(* no-op: no command of the compare stage is issued (no comparison, no     *)
(* deletion, no summary) and the report file is as it was when the script  *)
(* started.                                                                *)
(***************************************************************************)
C10_NotAPairIsNoOp ==
  Len(iss) # 2 =>
    /\ OfStage("iss_cmp") = {}
    /\ report = report0
    /\ passed_cnt = Unassigned
    /\ failed_cnt = Unassigned
    /\ pc \notin {"cmp_loop", "cmp_run", "cmp_summary"}

\* iss_cmp was called with three names and returned, an older report
\* being in place.
C10_Witness ==
  /\ Len(iss) = 3
  /\ Called("iss_cmp")
  /\ Ended
  /\ report0 = OldReport
  /\ report = OldReport

(***************************************************************************)
(* C11.  After iss_cmp completes with two simulators, the last line of the *)
(* report is the summary line, whose two counts are the number of lines    *)
(* containing the marker PASSED and the number of lines containing the     *)
(* marker FAILED of the report as it stood before the summary was          *)
(* appended.  Violated: when no test case of the selection has an          *)
(* iteration, the report does not exist when grep reads it, the captured   *)
(* counts hold grep's complaint, and no summary line is written.           *)
(***************************************************************************)
C11_SummaryClosesReport ==
  (Len(iss) = 2 /\ Called("iss_cmp") /\ pc \in {"steps", "exit"}) =>
    /\ Len(report) > 0
    /\ LET n    == Len(report)
           body == SubSeq(report, 1, n - 1)
       IN  /\ report[n].text = "summary"
           /\ report[n].p =
                Cardinality({k \in DOMAIN body : HasMarker(body[k], "PASSED")})
           /\ report[n].f =
                Cardinality({k \in DOMAIN body : HasMarker(body[k], "FAILED")})
           /\ passed_cnt = Captured(FALSE, report[n].p)
           /\ failed_cnt = Captured(FALSE, report[n].f)

(***************************************************************************)
(* C12.  The stages agree on the names of the files of a test iteration:   *)
(* the object file that gcc_compile writes for a test case and index is    *)
(* the one objcopy converts, the one iss_sim runs and the one iss_cmp      *)
(* labels its report entry with, and the log that iss_sim writes for a     *)
(* simulator, test case and index is the log iss_cmp reads for them.       *)
(* Commands for different test cases, for different indices of a test case *)
(* or (simulator logs) for different simulators never name the same file,  *)
(* and every index a command is issued for is in [0, iterations) of its    *)
(* test case.                                                              *)
(***************************************************************************)
C12_StagesAgreeOnNames ==
  LET named == {k \in DOMAIN trace : trace[k].files # <<>>}
      same(k, l) == trace[k].test = trace[l].test /\ trace[k].idx = trace[l].idx
      paths(k) == {trace[k].files[n] : n \in DOMAIN trace[k].files}
  IN  /\ \A k \in named :
           \E t \in DOMAIN matched_list :
             /\ matched_list[t].test = trace[k].test
             /\ 0 <= trace[k].idx
             /\ trace[k].idx < matched_list[t].iterations
      /\ \A k \in OfKind("gcc") : \A l \in named :
           (same(k, l) /\ trace[l].kind \in {"objcopy", "iss_run", "echo_label"})
             => trace[l].files[1] = trace[k].files[2]
      /\ \A k \in OfKind("iss_run") : \A l \in OfKind("iss_cmp") :
           same(k, l) =>
             /\ trace[l].a = trace[k].a => trace[l].files[1] = trace[k].files[2]
             /\ trace[l].b = trace[k].a => trace[l].files[2] = trace[k].files[2]
      /\ \A k \in named : \A l \in named :
           ~same(k, l) => paths(k) \cap paths(l) = {}
      /\ \A k \in OfKind("iss_run") : \A l \in OfKind("iss_run") :
           trace[k].a # trace[l].a => trace[k].files[2] # trace[l].files[2]

\* A complete run over the test cases "t" and "t.0": every iteration was
\* compiled, run on both simulators and compared.
C12_Witness ==
  /\ Ended
  /\ calls = <<"gen", "gcc_compile", "iss_sim", "iss_cmp">>
  /\ Len(matched_list) = 2
  /\ matched_list[2].test = "t.0"
  /\ matched_list[1].iterations > 0
  /\ matched_list[2].iterations > 0
  /\ Cardinality(OfKind("gcc")) = Cardinality(Iterations)
  /\ Cardinality(OfKind("iss_run")) = 2 * Cardinality(Iterations)
  /\ Cardinality(OfKind("iss_cmp")) = Cardinality(Iterations)

(***************************************************************************)
(* C13.  Template resolution is not re-entrant: every command issued is    *)
(* its template with each placeholder replaced by its value, the values    *)
(* appearing verbatim, whatever they contain.  Violated: the replacements  *)
(* are made one after the other with re.sub on the whole text, so that a   *)
(* placeholder inside a value inserted earlier is replaced by a later one. *)
(***************************************************************************)
C13_ResolutionNotReentrant ==
  /\ \A k \in OfKind("gen_compile") :
       trace[k].text = OnePass(compile_cmd[trace[k].idx], GenValues)
  /\ \A k \in OfKind("gen_run") :
       trace[k].text =
         Rstrip(OnePass(SimulatorYaml[FirstMatch(SimulatorYaml, "tool",
                                                 simulator)].sim_cmd,
                        GenValues))
  /\ \A k \in OfKind("iss_run") :
       trace[k].text =
         OnePass(Rstrip(IssYaml[FirstMatch(IssYaml, "iss", trace[k].a)].cmd),
                 IssValues(trace[k].a, trace[k].files[1]))
           \o <<" &> ">> \o trace[k].files[2]

(***************************************************************************)
(* C14.  Profile lookup is total and deterministic.  get_generator_cmd:    *)
(* once gen is past the lookup, either the profile file has an entry whose *)
(* tool is exactly the requested simulator, and compile_cmd and sim_cmd    *)
(* are those of the first such entry, or it has none, and the process has  *)
(* terminated with a nonzero status without any generator command.         *)
(* parse_iss_yaml: every simulator invocation is the command of the first  *)
(* entry whose name is exactly the requested one, and a lookup of a name   *)
(* without entry is the last thing the run does: the process has           *)
(* terminated with a nonzero status.  Names that differ in case only are   *)
(* different names.                                                        *)
(***************************************************************************)
C14_LookupFirstExactMatch ==
  /\ (Called("gen") /\ pc # "gen") =>
       IF Listed(SimulatorYaml, "tool", simulator)
         THEN \E k \in DOMAIN SimulatorYaml :
                /\ IsFirst(SimulatorYaml, "tool", simulator, k)
                /\ compile_cmd = SimulatorYaml[k].compile_cmd
                /\ sim_cmd \in {SimulatorYaml[k].sim_cmd,
                                OnePass(SimulatorYaml[k].sim_cmd, GenValues)}
         ELSE /\ Aborted
              /\ exit_how = "sys.exit"
              /\ calls = <<"gen">>
              /\ compile_cmd = <<>>
              /\ sim_cmd = <<>>
              /\ LastKind = "read_yaml"
  /\ \A k \in OfKind("iss_run") :
       \E e \in DOMAIN IssYaml :
         /\ IsFirst(IssYaml, "iss", trace[k].a, e)
         /\ trace[k].text =
              OnePass(Rstrip(IssYaml[e].cmd),
                      IssValues(trace[k].a, trace[k].files[1]))
                \o <<" &> ">> \o trace[k].files[2]
  /\ \A k \in OfKind("read_yaml") :
       (trace[k].stage = "iss_sim" /\ ~Listed(IssYaml, "iss", trace[k].a)) =>
         /\ k = Len(trace)
         /\ Aborted
         /\ exit_how = "sys.exit"

\* The generator commands of the first of the two "vcs" entries were used,
\* the first of the two "spike" entries was run, and the lookup of "sail",
\* of which the file has the entry "Sail" only, ended the run.
C14_Witness ==
  /\ simulator = "vcs"
  /\ iss = <<"spike", "sail">>
  /\ OfKind("gen_run") # {}
  /\ OfKind("iss_run") # {}
  /\ LastKind = "read_yaml"
  /\ Aborted

\* The lookup of "questa", of which the file has the entry "Questa" only,
\* ended the run.
C14_WitnessGenerator ==
  /\ simulator = "questa"
  /\ calls = <<"gen">>
  /\ Aborted

(***************************************************************************)
(* C15.  In the command of a simulator the placeholder <variant> is        *)
(* replaced by the upper-cased ISA if the name of the simulator is exactly *)
(* "ovpsim", and by the ISA as given for every other name ("spike", and    *)
(* "OVPSIM", which differs in case only): every simulator invocation is    *)
(* the template of its entry in which, after the path value was inserted,  *)
(* each <variant> is that text, and in which the object file and the log   *)
(* were then inserted.                                                     *)
(***************************************************************************)
C15_VariantUpperForOvpsimOnly ==
  \A k \in OfKind("iss_run") :
    LET name == trace[k].a
        e    == CHOOSE j \in DOMAIN IssYaml : IsFirst(IssYaml, "iss", name, j)
        v    == IF name = "ovpsim" THEN Upper(isa) ELSE isa
    IN  trace[k].text =
          ReSub("<elf>", trace[k].files[1],
                OnePass(ReSub("<path_var>", iss_path, Rstrip(IssYaml[e].cmd)),
                        "<variant>" :> v))
            \o <<" &> ">> \o trace[k].files[2]

\* With the ISA "rv", ovpsim was run with "RV" and then spike with "rv".
C15_Witness ==
  /\ isa = <<"r", "v">>
  /\ iss = <<"ovpsim", "spike">>
  /\ LastKind = "iss_run"
  /\ trace[Len(trace)].a = "spike"
  /\ \E n \in DOMAIN trace[Len(trace)].text :
       /\ trace[Len(trace)].text[n] = "r"
       /\ trace[Len(trace)].text[n + 1] = "v"
  /\ \E k \in OfKind("iss_run") :
       /\ trace[k].a = "ovpsim"
       /\ \E n \in DOMAIN trace[k].text :
            /\ trace[k].text[n] = "R"
            /\ trace[k].text[n + 1] = "V"

\* With the ISA "rv", the simulator named "OVPSIM" was run with "rv".
C15_WitnessOtherCase ==
  /\ isa = <<"r", "v">>
  /\ LastKind = "iss_run"
  /\ trace[Len(trace)].a = "OVPSIM"
  /\ \E n \in DOMAIN trace[Len(trace)].text :
       /\ trace[Len(trace)].text[n] = "r"
       /\ trace[Len(trace)].text[n + 1] = "v"

(***************************************************************************)
(* C16.  In the generate stage the compile commands of the generator are   *)
(* executed if and only if sim_only is not set, and generator runs are     *)
(* issued if and only if compile_only is not set: with sim_only no compile *)
(* command is ever issued, with compile_only no generator run; when gen    *)
(* has returned without sim_only, each compile command of the profile was  *)
(* executed once, in the order of the profile; when gen has returned       *)
(* without compile_only, exactly one run was issued for each test case     *)
(* with iterations > 0.  The runs are issued in the order of the           *)
(* selection, and never for a test case with iterations 0.                 *)
(***************************************************************************)
C16_GenPhasesFollowFlags ==
  /\ so => OfKind("gen_compile") = {}
  /\ co => OfKind("gen_run") = {}
  /\ \A k \in OfKind("gen_compile") :
       /\ trace[k].idx \in DOMAIN compile_cmd
       /\ trace[k].idx > 1 =>
            /\ trace[k - 1].kind = "gen_compile"
            /\ trace[k - 1].idx = trace[k].idx - 1
  /\ \A k \in OfKind("gen_run") :
       /\ matched_list[TestIndex(trace[k].test)].iterations > 0
       /\ trace[k].idx = matched_list[TestIndex(trace[k].test)].iterations
       /\ \A l \in OfKind("gen_run") :
            k < l => TestIndex(trace[k].test) < TestIndex(trace[l].test)
  /\ GenReturned =>
       /\ ~so => \A n \in DOMAIN compile_cmd :
                   Cardinality({k \in OfKind("gen_compile") : trace[k].idx = n}) = 1
       /\ ~co => \A t \in DOMAIN matched_list :
                   Cardinality({k \in OfKind("gen_run") :
                                  trace[k].test = matched_list[t].test})
                     = IF matched_list[t].iterations > 0 THEN 1 ELSE 0

\* gen returned after both compile commands and one generator run: the
\* first test case has no iteration and the second has.
C16_Witness ==
  /\ GenReturned
  /\ ~so
  /\ ~co
  /\ Len(matched_list) = 2
  /\ matched_list[1].iterations = 0
  /\ matched_list[2].iterations > 0
  /\ Cardinality(OfKind("gen_compile")) = 2
  /\ Cardinality(OfKind("gen_run")) = 1

\* gen returned with sim_only set: generator runs and no compile command.
C16_WitnessSimOnly ==
  /\ GenReturned
  /\ so
  /\ ~co
  /\ Cardinality(OfKind("gen_run")) = 2

\* gen returned with compile_only set: compile commands and no run.
C16_WitnessCompileOnly ==
  /\ GenReturned
  /\ co
  /\ ~so
  /\ OfKind("gen_compile") # {}
  /\ \E t \in DOMAIN matched_list : matched_list[t].iterations > 0

(***************************************************************************)
(* C17.  A second run of the compare step on the same output directory and *)
(* the same simulator logs (the comparisons write the same lines as in the *)
(* first run) reports the same counts as the first run: its summary line   *)
(* is the one the first run wrote, and where the first run wrote none, the *)
(* selection having no iteration, the second writes none.  In every run    *)
(* the counts are those of the comparison lines of that run: a line of an  *)
(* earlier report, its summary line in particular, is never counted.       *)
(***************************************************************************)
C17_RerunSameCounts ==
  /\ (CmpReturned /\ steps = <<"iss_cmp">> /\ Body(report) = Body(report0)) =>
       /\ report = report0
       /\ IF report0 = <<>>
            THEN passed_cnt.err /\ failed_cnt.err
            ELSE /\ passed_cnt = Captured(FALSE, report0[Len(report0)].p)
                 /\ failed_cnt = Captured(FALSE, report0[Len(report0)].f)
  /\ (CmpReturned /\ Iterations # {}) =>
       /\ passed_cnt = Captured(FALSE, LinesOf(report, "PASSED"))
       /\ failed_cnt = Captured(FALSE, LinesOf(report, "FAILED"))
       /\ LinesOf(report, "PASSED") + LinesOf(report, "FAILED")
            + LinesOf(report, "ERROR") = Cardinality(Iterations)
       /\ LinesOf(report, "summary") = 1

\* The second run has returned from iss_cmp: its comparisons wrote what
\* those of the first run wrote, a PASSED and a FAILED among them, and the
\* first run's report held a summary line when the second run started.
C17_Witness ==
  /\ CmpReturned
  /\ steps = <<"iss_cmp">>
  /\ Body(report) = Body(report0)
  /\ LinesOf(report0, "summary") = 1
  /\ LinesOf(report, "PASSED") >= 1
  /\ LinesOf(report, "FAILED") >= 1
  /\ passed_cnt.n >= 1

(***************************************************************************)
(* C18.  When a name of the --iss list has no profile, the simulate stage  *)
(* terminates the pipeline without partial results: no simulator has been  *)
(* invoked (so no log written) for any name of the list, the names before  *)
(* the missing one included, and the compare stage is not called.          *)
(* Violated: the names are looked up one by one, each right before its own *)
(* invocations, so the simulators named before the missing one have been   *)
(* run when the lookup fails.                                              *)
(***************************************************************************)
C18_MissingProfileLeavesNothing ==
  (Called("iss_sim") /\ \E p \in DOMAIN iss : ~HasProfile(p)) =>
    /\ ~Called("iss_cmp")
    /\ pc = "exit" => /\ Aborted
                      /\ OfKind("iss_run") = {}

(***************************************************************************)
(* C19.  When a generator run fails (nonzero exit status or timeout), what *)
(* the script shows before it terminates is the captured output of the     *)
(* failing run, whichever test case of the selection it was for.           *)
(* Violated: on a nonzero status print(output) writes the variable output, *)
(* which holds the output of the previous successful command (an earlier   *)
(* generator run or the last compile command) or is not bound at all, and  *)
(* on a timeout nothing is printed.                                        *)
(***************************************************************************)
C19_FailingRunOutputShown ==
  (LastKind = "gen_run" /\ status \in {"nonzero", "timeout"}) =>
    shown = Output("gen_run", TestIndex(trace[Len(trace)].test))

(***************************************************************************)
(* C20.  The seed of every generator run is the seed given on the command  *)
(* line, the same for all test cases, when that seed is >= 0, 0 included;  *)
(* when it is negative, each run has a seed of [0, 2^32) of its own.       *)
(***************************************************************************)
C20_SeedGivenOrDrawn ==
  \A k \in OfKind("gen_run") :
    IF seed >= 0
      THEN trace[k].seed = <<seed \div Half, seed % Half>>
      ELSE trace[k].seed \in (0..Half - 1) \X (0..Half - 1)

\* Without seed given, two generator runs were issued with different
\* seeds, the second with 2^32 - 1.
C20_Witness ==
  /\ seed < 0
  /\ Cardinality(OfKind("gen_run")) = 2
  /\ LastKind = "gen_run"
  /\ trace[Len(trace)].seed = <<Half - 1, Half - 1>>
  /\ \E k \in OfKind("gen_run") : trace[k].seed = <<0, 0>>

\* With the seed 0 given, two generator runs were issued.
C20_WitnessZero ==
  /\ seed = 0
  /\ Cardinality(OfKind("gen_run")) = 2
  /\ \A k \in OfKind("gen_run") : trace[k].seed = <<0, 0>>

====
